---- MODULE Spec2Model ----
(***************************************************************************)
(* A model of the reactive core of jinjx-js: JinjxSignal (a scalar cell),  *)
(* JinjxSignalList (an ordered collection with pause/begin) and JinjxScope *)
(* (a disposal container).  Each class is a state machine of its own; the  *)
(* three specifications SpecSignal, SpecList/SpecAlias and SpecScope share *)
(* one set of variables and leave the other classes' variables unchanged.  *)
(***************************************************************************)
EXTENDS Integers, Sequences, FiniteSets, TLC

VARIABLES
    sValue,      \* JinjxSignal._value
    sListeners,  \* JinjxSignal.listeners: the Set's entry list, in insertion order
    sStack,      \* the notify() calls in progress (innermost last)
    sDone        \* the write (set value call) that returned most recently

VARIABLES
    lHeap,        \* the arrays that exist: reference -> contents
    lData,        \* JinjxSignalList.data (a reference)
    lFrozen,      \* JinjxSignalList._frozen
    lFrozenValue, \* JinjxSignalList._frozenValue (a reference)
    lWatchers,    \* JinjxSignalList.watchers, in insertion order
    lLog,         \* the watcher calls made by the operation that ran last
    lOp,          \* the operation that ran last: its name and result
    lHeld,        \* the arrays held outside the list: by a watcher that kept an
                  \* argument, or by a caller (constructor argument, .value result)
    gHist,        \* noted: the sequences at the most recent pause() and at the
                  \* time the list last went from unfrozen to frozen
    gSeen,        \* noted: the sequences the watchers were last called with
    gArgs,        \* noted: the arguments of the call that ran last
    gBefore,      \* noted: the sequence as the call that ran last found it
    lCall         \* the notify() call that a watcher of it interrupts by
                  \* calling the list

sigVars == <<sValue, sListeners, sStack, sDone>>

listVars == <<lHeap, lData, lFrozen, lFrozenValue, lWatchers, lLog, lOp,
              lHeld, gHist, gSeen, gArgs, gBefore, lCall>>

\* A JinjxScope and its host element
VARIABLES
    effectStore,    \* _effectStore: the array (a place in scArrays) it refers to
    scArrays,       \* the arrays of cleanup actions, each action a place in scRegs
    scStack,        \* the dispose() calls in progress, outermost first
    scRegs,         \* the actions registered so far: by effect() or by delegate()
    hostListeners,  \* the delegate() registrations whose listener is on the host
    scRuns,         \* noted: how often each action ran (MaxRuns: that or more)
    scFresh,        \* noted: a dispose() returned and nothing was registered since
    scThrew,        \* noted: a cleanup action threw
    scGone,         \* noted: the actions registered before a dispose() that returned
    scDone          \* noted: the dispose() call that has just ended

scopeVars == <<effectStore, scArrays, scStack, scRegs, hostListeners, scRuns,
               scFresh, scThrew, scGone, scDone>>

\* The signal made by state(reaction, initialValue) and its reaction
VARIABLES
    stValue,     \* the _value of the signal
    stLog,       \* the calls of reaction so far: what its parameters oldVal
                 \* and newVal were bound to
    stOp         \* noted: the call of get or set that ran last

stateVars == <<stValue, stLog, stOp>>

vars == <<sigVars, listVars, scopeVars, stateVars>>

notSignal == <<listVars, scopeVars, stateVars>>
notList == <<sigVars, scopeVars, stateVars>>
notScope == <<sigVars, listVars, stateVars>>
notState == <<sigVars, listVars, scopeVars>>

(***************************************************************************)
(* Bounds and input sets                                                   *)
(***************************************************************************)
MaxDepth == 2        \* nested notify() calls, nested dispose() calls
MaxEntries == 2      \* entries of the listeners' entry list during a dispatch

SigValues == {0, 1}
SigWatchers == {"w1", "w2"}

MaxLen == 2          \* elements of an array
MaxHeld == 1         \* arrays held outside the list at a time

MaxRegs == 3         \* cleanup actions registered with a scope
MaxRuns == 2         \* runs of a cleanup action that are counted

MaxCalls == 3        \* calls of the reaction of a state() that are followed
StateValues == 0 .. 2

ListValues == {1, 2}
ListWatchers == {"v1", "v2"}

None == "none"
Empty == "empty"     \* a deleted entry of a Set that is being iterated

(***************************************************************************)
(* JinjxSignal                                                             *)
(***************************************************************************)

\* Sequence helpers
Range(s) == {s[i] : i \in 1 .. Len(s)}

Top == sStack[Len(sStack)]

ZeroCalls == [w \in SigWatchers |-> 0]

\* The newVal of the call a watcher received last, as a set: empty while the
\* watcher has not been called during the write.
NoLast == [w \in SigWatchers |-> {}]

\* sDone describes a write only in the state in which it has just returned;
\* of a listens or off call that has just returned it holds the watcher (reg)
\* and whether it was registered before the call (fixed).  last holds, for
\* every watcher called between the write's start and its return, the newVal
\* of the latest call, whichever notify() made it.
NoDone == [kind |-> None, nv |-> 0, ov |-> 0, after |-> 0,
           calls |-> ZeroCalls, reg |-> {}, fixed |-> TRUE, last |-> NoLast]

\* The members of the Set whose entry list is l.
Members(l) == Range(l) \ {Empty}

\* changed(newVal, oldVal): strict inequality.
changed_always(newVal, oldVal) == TRUE

changed(newVal, oldVal) == newVal # oldVal

\* Set.prototype.add: appends the value unless it is a member.
SetAdd_append(l, w) == Append(l, w)

SetAdd(l, w) == IF w \in Members(l) THEN l ELSE Append(l, w)

\* Set.prototype.delete: while an iterator is live the entry is emptied in
\* place (the iterator's index keeps its meaning); otherwise it is dropped.
SetDelete(l, w, iterating) ==
    IF iterating
    THEN [i \in 1 .. Len(l) |-> IF l[i] = w THEN Empty ELSE l[i]]
    ELSE SelectSeq(l, LAMBDA x : x # w)

\* The index of the first non-empty entry after position idx, 0 if none: what
\* the Set iterator's next() yields.
NextEntry(l, idx) ==
    LET cand == {i \in (idx + 1) .. Len(l) : l[i] # Empty}
    IN  IF cand = {} THEN 0 ELSE CHOOSE i \in cand : \A j \in cand : i <= j

\* Code runs either at top level (no notification in progress) or inside the
\* watcher that the innermost notify() is currently calling.
CanCall == IF sStack = <<>> THEN TRUE ELSE Top.cur # None

\* Every notification in progress notes that the listener set was changed.
MarkUnfixed(st) == [i \in 1 .. Len(st) |-> [st[i] EXCEPT !.fixed = FALSE]]

\* Every notification in progress notes that the value was written again.
MarkStale(st) == [i \in 1 .. Len(st) |-> [st[i] EXCEPT !.stale = TRUE]]

\* Every notification in progress notes the newVal watcher w was called with.
MarkLast(st, w, newVal) ==
    [i \in 1 .. Len(st) |-> [st[i] EXCEPT !.last = [@ EXCEPT ![w] = {newVal}]]]

NewFrame(newVal, oldVal) ==
    [nv |-> newVal, ov |-> oldVal, idx |-> 0, cur |-> None, obs |-> None,
     calls |-> ZeroCalls, reg |-> Members(sListeners), fixed |-> TRUE,
     stale |-> FALSE, last |-> NoLast]

\* The value the signal holds while notify(newVal, oldVal) runs.
StoredBeforeNotify_skipped(newVal, oldVal) == oldVal

StoredBeforeNotify(newVal, oldVal) == newVal

\* set value(newVal)
SetValue(v) ==
    /\ CanCall
    /\ UNCHANGED notSignal
    /\ IF ~changed(v, sValue)
       THEN /\ sDone' = [kind |-> "write", nv |-> v, ov |-> sValue,
                         after |-> sValue, calls |-> ZeroCalls,
                         reg |-> Members(sListeners), fixed |-> TRUE,
                         last |-> NoLast]
            /\ UNCHANGED <<sValue, sListeners, sStack>>
       ELSE /\ Len(sStack) < MaxDepth
            /\ sValue' = StoredBeforeNotify(v, sValue)
            /\ sStack' = Append(MarkStale(sStack), NewFrame(v, sValue))
            /\ sDone' = NoDone
            /\ UNCHANGED sListeners

\* listens(watcher)
Listens(w) ==
    /\ CanCall
    /\ UNCHANGED notSignal
    /\ w \in Members(sListeners) \/ Len(sListeners) < MaxEntries
    /\ sListeners' = SetAdd(sListeners, w)
    /\ sStack' = IF w \in Members(sListeners) THEN sStack ELSE MarkUnfixed(sStack)
    /\ sDone' = [NoDone EXCEPT !.kind = "listens", !.reg = {w},
                              !.fixed = w \in Members(sListeners)]
    /\ UNCHANGED sValue

\* off(watcher)
Off(w) ==
    /\ CanCall
    /\ UNCHANGED notSignal
    /\ sListeners' = SetDelete(sListeners, w, sStack # <<>>)
    /\ sStack' = IF w \in Members(sListeners) THEN MarkUnfixed(sStack) ELSE sStack
    /\ sDone' = [NoDone EXCEPT !.kind = "off", !.reg = {w},
                              !.fixed = w \in Members(sListeners)]
    /\ UNCHANGED sValue

\* notify(): one turn of `for (const watcher of this.listeners)`: the iterator
\* yields the next entry and the watcher is called with (newVal, oldVal).
Dispatch ==
    /\ sStack # <<>>
    /\ UNCHANGED notSignal
    /\ Top.cur = None
    /\ NextEntry(sListeners, Top.idx) # 0
    /\ LET i == NextEntry(sListeners, Top.idx)
           w == sListeners[i]
       IN  sStack' = [MarkLast(sStack, w, Top.nv) EXCEPT ![Len(sStack)] =
                        [@ EXCEPT !.idx = i, !.cur = w, !.obs = sValue,
                                  !.calls = [@ EXCEPT ![w] = @ + 1]]]
    /\ sDone' = NoDone
    /\ UNCHANGED <<sValue, sListeners>>

\* The watcher being called returns.
WatcherReturn ==
    /\ sStack # <<>>
    /\ UNCHANGED notSignal
    /\ Top.cur # None
    /\ sStack' = [sStack EXCEPT ![Len(sStack)] = [@ EXCEPT !.cur = None, !.obs = None]]
    /\ sDone' = NoDone
    /\ UNCHANGED <<sValue, sListeners>>

\* notify(): the iterator is exhausted; notify and set value return.
NotifyReturn ==
    /\ sStack # <<>>
    /\ UNCHANGED notSignal
    /\ Top.cur = None
    /\ NextEntry(sListeners, Top.idx) = 0
    /\ sDone' = [kind |-> "write", nv |-> Top.nv, ov |-> Top.ov,
                 after |-> sValue, calls |-> Top.calls, reg |-> Top.reg,
                 fixed |-> Top.fixed, last |-> Top.last]
    /\ sStack' = SubSeq(sStack, 1, Len(sStack) - 1)
    /\ sListeners' = IF Len(sStack) = 1
                     THEN SelectSeq(sListeners, LAMBDA x : x # Empty)
                     ELSE sListeners
    /\ UNCHANGED sValue

\* The notify() calls left when the innermost one is ended by an error of the
\* watcher it was calling: the loop is left, notify and set value do not
\* catch.
Unwound_swallowed(st) ==
    [st EXCEPT ![Len(st)] = [@ EXCEPT !.cur = None, !.obs = None]]

Unwound(st) == SubSeq(st, 1, Len(st) - 1)

\* The watcher being called throws: the error leaves notify() and set value
\* and reaches the caller of the write (at top level, or the watcher of the
\* enclosing notify(), which goes on or throws in turn).
WatcherThrow ==
    /\ sStack # <<>>
    /\ UNCHANGED notSignal
    /\ Top.cur # None
    /\ sDone' = [kind |-> "throw", nv |-> Top.nv, ov |-> Top.ov,
                 after |-> sValue, calls |-> Top.calls, reg |-> Top.reg,
                 fixed |-> Top.fixed, last |-> Top.last]
    /\ sStack' = Unwound(sStack)
    /\ sListeners' = IF Len(sStack) = 1
                     THEN SelectSeq(sListeners, LAMBDA x : x # Empty)
                     ELSE sListeners
    /\ UNCHANGED sValue

\* new JinjxSignal(initialValue)
InitSignalWith(initialValue) ==
    /\ sValue = initialValue
    /\ sListeners = <<>>
    /\ sStack = <<>>
    /\ sDone = NoDone

NextSignal ==
    \/ \E v \in SigValues : SetValue(v)
    \/ \E w \in SigWatchers : Listens(w)
    \/ \E w \in SigWatchers : Off(w)
    \/ Dispatch
    \/ WatcherReturn
    \/ NotifyReturn



(***************************************************************************)
(* JinjxSignalList                                                         *)
(*                                                                         *)
(* Arrays are objects: lHeap maps a reference to the array's contents, and *)
(* data, _frozenValue, the arguments of a watcher and the arrays callers   *)
(* hold are references, so that two names of one array can be told from    *)
(* two arrays with equal contents.  An array nothing refers to is dropped, *)
(* and references are renumbered in a fixed order (data first) after every *)
(* operation: a reference's number means nothing, only what shares it.     *)
(***************************************************************************)

Min(a, b) == IF a < b THEN a ELSE b
Max(a, b) == IF a > b THEN a ELSE b

\* The sequences over S of at most n elements.
SeqsUpTo(S, n) == UNION {[1 .. k -> S] : k \in 0 .. n}

Arrays == SeqsUpTo(ListValues, MaxLen)

\* A reference not in use: the smallest one.
Alloc(h) ==
    CHOOSE n \in 1 .. (Cardinality(DOMAIN h) + 1) :
        /\ n \notin DOMAIN h
        /\ \A m \in 1 .. (n - 1) : m \in DOMAIN h

Put(h, r, s) == [x \in (DOMAIN h) \cup {r} |-> IF x = r THEN s ELSE h[x]]

\* [...arr] and arr.slice(): a new array with the same contents.
CopyOf(h, r) == Put(h, Alloc(h), h[r])

\* The elements of arr at the positions in I, in order (Array.prototype.filter).
RECURSIVE Pick(_, _, _)
Pick(arr, I, i) ==
    IF i > Len(arr) THEN <<>>
    ELSE (IF i \in I THEN <<arr[i]>> ELSE <<>>) \o Pick(arr, I, i + 1)

\* Array.prototype.splice(start, deleteCount, ...items)
JsSplice_toTheEnd(arr, start, deleteCount, items) ==
    LET len == Len(arr)
        actualStart == IF start < 0 THEN Max(len + start, 0) ELSE Min(start, len)
    IN  [removed |-> SubSeq(arr, actualStart + 1, len),
         arr |-> SubSeq(arr, 1, actualStart) \o items]

JsSplice(arr, start, deleteCount, items) ==
    LET len == Len(arr)
        actualStart == IF start < 0 THEN Max(len + start, 0) ELSE Min(start, len)
        cnt == Min(Max(deleteCount, 0), len - actualStart)
    IN  [removed |-> SubSeq(arr, actualStart + 1, actualStart + cnt),
         arr |-> SubSeq(arr, 1, actualStart) \o items
                 \o SubSeq(arr, actualStart + cnt + 1, len)]

\* The callbacks passed to filterBy and remove: callback(item, index, array).
Preds == {"isOne", "isEven", "firstIndex", "lastIndex", "any", "never"}

Holds(p, item, index, arr) ==
    CASE p = "isOne" -> item = 1
      [] p = "isEven" -> item % 2 = 0
      [] p = "firstIndex" -> index = 0
      [] p = "lastIndex" -> index = Len(arr) - 1
      [] p = "any" -> TRUE
      [] OTHER -> FALSE

\* The compareFn passed to orderBy; "default" is sort() without one, which
\* orders one-digit numbers by their decimal strings, that is, ascending.
Comparators == {"asc", "desc", "default"}

Compare(c, a, b) == IF c = "desc" THEN b - a ELSE a - b

\* Array.prototype.sort is stable: x goes after the elements not greater.
RECURSIVE Insert(_, _, _)
Insert(sorted, x, c) ==
    IF sorted = <<>> THEN <<x>>
    ELSE IF Compare(c, Head(sorted), x) <= 0
         THEN <<Head(sorted)>> \o Insert(Tail(sorted), x, c)
         ELSE <<x>> \o sorted

RECURSIVE JsSort(_, _)
JsSort(arr, c) ==
    IF arr = <<>> THEN <<>>
    ELSE Insert(JsSort(SubSeq(arr, 1, Len(arr) - 1), c), arr[Len(arr)], c)

arraysShallowEqual_lengthOnly(arr1, arr2) == Len(arr1) = Len(arr2)

arraysShallowEqual(arr1, arr2) ==
    IF Len(arr1) # Len(arr2) THEN FALSE
    ELSE \A i \in 1 .. Len(arr1) : arr1[i] = arr2[i]

\* The sequence of the list (this.data) and its frozen baseline.
Items == lHeap[lData]

Baseline == lHeap[lFrozenValue]

\* No watcher was called.
NoLog == [ws |-> <<>>, nr |-> 0, or |-> 0]

\* notify(newVal, oldVal): nothing while frozen, else the watchers ws are
\* called in turn, each with the same two arrays.
Notify_ignoresFrozen(frozen, nr, or) ==
    IF lWatchers = <<>> THEN NoLog
    ELSE [ws |-> lWatchers, nr |-> nr, or |-> or]

Notify(frozen, nr, or) ==
    IF frozen \/ lWatchers = <<>> THEN NoLog
    ELSE [ws |-> lWatchers, nr |-> nr, or |-> or]

\* What ran last: ret is <<>> for undefined (or nothing), <<x>> for x; slot
\* is the place (in lHeld) of the array the step was about, 0 if none; was
\* is _frozen as the step found it.
OpOn(name, ret, slot) ==
    [name |-> name, ret |-> ret, slot |-> slot, was |-> lFrozen]

Op(name, ret) == OpOn(name, ret, 0)

OpAt(name, slot) == OpOn(name, <<>>, slot)

NoHold == [ref |-> 0, by |-> None]

HeldSlots == 1 .. MaxHeld

\* The references in use, in the order that numbers them.
RefOrder(d, f, log, held) ==
    <<d, f, log.nr, log.or>> \o [i \in HeldSlots |-> held[i].ref]

\* The references of P from position i on that are not in acc, added to acc
\* in the order of their first occurrence.
RECURSIVE Distinct(_, _, _)
Distinct(P, i, acc) ==
    IF i > Len(P) THEN acc
    ELSE Distinct(P, i + 1,
                  IF P[i] = 0 \/ P[i] \in Range(acc) THEN acc ELSE Append(acc, P[i]))

\* The end of an operation that leaves heap h, data d, _frozenValue f, the
\* watcher calls log and the held arrays held.
Commit(h, d, f, log, held, op) ==
    \E hh \in {h}, ord \in {Distinct(RefOrder(d, f, log, held), 1, <<>>)} :
        LET m(r) == IF r = 0 THEN 0 ELSE CHOOSE i \in 1 .. Len(ord) : ord[i] = r
        IN  /\ lHeap' = [n \in 1 .. Len(ord) |-> hh[ord[n]]]
            /\ lData' = m(d)
            /\ lFrozenValue' = m(f)
            /\ lLog' = [log EXCEPT !.nr = m(@), !.or = m(@)]
            /\ lHeld' = [i \in HeldSlots |-> [held[i] EXCEPT !.ref = m(@)]]
            /\ lOp' = op
            /\ UNCHANGED notList

\* The end of a mutator.
Mutated(h, d, log, op) ==
    /\ Commit(h, d, lFrozenValue, log, lHeld, op)
    /\ UNCHANGED <<lFrozen, lWatchers>>

\* pause()
PauseSnapshot_aliased(h) == [heap |-> h, ref |-> lData]

PauseSnapshot(h) == [heap |-> CopyOf(h, lData), ref |-> Alloc(h)]

Pause ==
    LET snap == PauseSnapshot(lHeap)
    IN  /\ lFrozen' = TRUE
        /\ Commit(snap.heap, lData, snap.ref, NoLog, lHeld, Op("pause", <<>>))
        /\ UNCHANGED lWatchers

\* begin()
BeginFrozen_kept == lFrozen

BeginFrozen == FALSE

Begin ==
    /\ lFrozen' = BeginFrozen
    /\ Commit(lHeap, lData, lFrozenValue,
              Notify(lFrozen', lData, lFrozenValue), lHeld, Op("begin", <<>>))
    /\ UNCHANGED lWatchers

\* A place for one more array held outside the list, 0 if there is none.
FreeSlot ==
    IF \E i \in HeldSlots : lHeld[i].ref = 0
    THEN CHOOSE i \in HeldSlots : lHeld[i].ref = 0 /\ \A j \in 1 .. (i - 1) : lHeld[j].ref # 0
    ELSE 0

\* get value(): a new array with the contents of data; the caller keeps it
\* (keep) or only looks at it.
GetValueCopy(h) == [heap |-> CopyOf(h, lData), ref |-> Alloc(h)]

GetValue(keep) ==
    LET c == GetValueCopy(lHeap)
    IN  /\ keep => FreeSlot # 0
        /\ Commit(c.heap, lData, lFrozenValue, NoLog,
                  IF keep THEN [lHeld EXCEPT ![FreeSlot] = [ref |-> c.ref, by |-> "caller"]]
                          ELSE lHeld,
                  OpOn("get", <<c.heap[c.ref]>>, IF keep THEN FreeSlot ELSE 0))
        /\ UNCHANGED <<lFrozen, lWatchers>>

\* set value(newArray), newArray being the array at reference r of heap h.
SetterCopy_aliased(h, r) == [heap |-> h, ref |-> r]

SetterCopy(h, r) == [heap |-> CopyOf(h, r), ref |-> Alloc(h)]

SetWhole_checked(h, r, op) ==
    LET oldVal == lData
        c == SetterCopy(h, r)
    IN  Mutated(c.heap, c.ref,
                IF arraysShallowEqual(c.heap[c.ref], lHeap[oldVal]) THEN NoLog
                ELSE Notify(lFrozen, c.ref, oldVal), op)

SetWhole(h, r, op) ==
    LET oldVal == lData
        c == SetterCopy(h, r)
    IN  Mutated(c.heap, c.ref, Notify(lFrozen, c.ref, oldVal), op)

\* list.value = [...]: the argument is an array nobody else holds.
SetValueLiteral(s) ==
    SetWhole(Put(lHeap, Alloc(lHeap), s), Alloc(lHeap), Op("set", <<>>))

\* list.value = a: the argument is an array that is held outside the list.
SetValueHeld(i) ==
    /\ lHeld[i].ref # 0
    /\ SetWhole(lHeap, lHeld[i].ref,
                OpAt("set", i))

\* listener(fn)
Listener(w) ==
    /\ lWatchers' = IF w \in Range(lWatchers) THEN lWatchers ELSE Append(lWatchers, w)
    /\ Commit(lHeap, lData, lFrozenValue, NoLog, lHeld, Op("listener", <<>>))
    /\ UNCHANGED lFrozen

\* stop(fn)
Stop(w) ==
    /\ lWatchers' = SelectSeq(lWatchers, LAMBDA x : x # w)
    /\ Commit(lHeap, lData, lFrozenValue, NoLog, lHeld, Op("stop", <<>>))
    /\ UNCHANGED lFrozen

\* push(...items)
Push(items) ==
    LET h1 == CopyOf(lHeap, lData)
        oldVal == Alloc(lHeap)
        h2 == [h1 EXCEPT ![lData] = @ \o items]
    IN  /\ Len(lHeap[lData]) + Len(items) <= MaxLen
        /\ Mutated(h2, lData, Notify(lFrozen, lData, oldVal),
                   Op("push", <<Len(h2[lData])>>))

\* pop()
Pop ==
    IF Len(lHeap[lData]) = 0
    THEN Mutated(lHeap, lData, NoLog, Op("pop", <<>>))
    ELSE LET h1 == CopyOf(lHeap, lData)
             oldVal == Alloc(lHeap)
             popped == lHeap[lData][Len(lHeap[lData])]
             h2 == [h1 EXCEPT ![lData] = SubSeq(@, 1, Len(@) - 1)]
         IN  Mutated(h2, lData, Notify(lFrozen, lData, oldVal),
                     Op("pop", <<popped>>))

\* Array.prototype.unshift(...items): the items go to the front as a block,
\* not one after the other.
JsUnshift_oneByOne(arr, items) ==
    [i \in 1 .. Len(items) |-> items[Len(items) + 1 - i]] \o arr

JsUnshift(arr, items) == items \o arr

\* unshift(...items)
Unshift(items) ==
    LET h1 == CopyOf(lHeap, lData)
        oldVal == Alloc(lHeap)
        h2 == [h1 EXCEPT ![lData] = JsUnshift(@, items)]
    IN  /\ Len(lHeap[lData]) + Len(items) <= MaxLen
        /\ Mutated(h2, lData, Notify(lFrozen, lData, oldVal),
                   Op("unshift", <<Len(h2[lData])>>))

\* shift()
Shift ==
    IF Len(lHeap[lData]) = 0
    THEN Mutated(lHeap, lData, NoLog, Op("shift", <<>>))
    ELSE LET h1 == CopyOf(lHeap, lData)
             oldVal == Alloc(lHeap)
             shifted == Head(lHeap[lData])
             h2 == [h1 EXCEPT ![lData] = Tail(@)]
         IN  Mutated(h2, lData, Notify(lFrozen, lData, oldVal),
                     Op("shift", <<shifted>>))

\* splice(start, deleteCount, ...items); given = FALSE is splice(start), for
\* which the array's own splice would delete up to the end: deleteCount ?? 0
DeleteCount_toTheEnd(given, dc) == IF given THEN dc ELSE MaxLen

DeleteCount(given, dc) == IF given THEN dc ELSE 0

Splice(start, given, dc, items) ==
    LET h1 == CopyOf(lHeap, lData)
        oldVal == Alloc(lHeap)
        sp == JsSplice(lHeap[lData], start, DeleteCount(given, dc), items)
        h2 == [h1 EXCEPT ![lData] = sp.arr]
    IN  /\ Len(sp.arr) <= MaxLen
        /\ Mutated(h2, lData,
                   IF Len(sp.removed) > 0 \/ Len(items) > 0
                   THEN Notify(lFrozen, lData, oldVal) ELSE NoLog,
                   Op("splice", <<sp.removed>>))

\* removeByIndex(index)
OutOfRange_above(index, length) == index >= length

OutOfRange(index, length) == index < 0 \/ index >= length

RemoveByIndex(index) ==
    IF OutOfRange(index, Len(lHeap[lData]))
    THEN Mutated(lHeap, lData, NoLog, Op("removeByIndex", <<>>))
    ELSE LET h1 == CopyOf(lHeap, lData)
             oldVal == Alloc(lHeap)
             sp == JsSplice(lHeap[lData], index, 1, <<>>)
             h2 == [h1 EXCEPT ![lData] = sp.arr]
         IN  Mutated(h2, lData, Notify(lFrozen, lData, oldVal),
                     Op("removeByIndex",
                        IF sp.removed = <<>> THEN <<>> ELSE <<sp.removed[1]>>))

\* filterBy(callback)
FilterBy(p) ==
    LET cur == lHeap[lData]
        h1 == CopyOf(lHeap, lData)
        oldVal == Alloc(lHeap)
        newArr == Pick(cur, {i \in 1 .. Len(cur) : Holds(p, cur[i], i - 1, cur)}, 1)
        removed == Pick(cur, {i \in 1 .. Len(cur) : cur[i] \notin Range(newArr)}, 1)
        newRef == Alloc(h1)
        h2 == Put(h1, newRef, newArr)
    IN  IF Len(removed) > 0 \/ Len(newArr) # Len(cur)
        THEN Mutated(h2, newRef, Notify(lFrozen, newRef, oldVal),
                     Op("filterBy", <<removed>>))
        ELSE Mutated(lHeap, lData, NoLog, Op("filterBy", <<removed>>))

\* orderBy(compareFn): this.data.sort(compareFn)
DataSorted_unique(arr, c) ==
    JsSort(Pick(arr, {i \in 1 .. Len(arr) : \A j \in 1 .. (i - 1) : arr[j] # arr[i]}, 1), c)

DataSorted(arr, c) == JsSort(arr, c)

OrderBy(c) ==
    LET h1 == CopyOf(lHeap, lData)
        oldVal == Alloc(lHeap)
        h2 == [h1 EXCEPT ![lData] = DataSorted(@, c)]
    IN  Mutated(h2, lData,
                IF ~arraysShallowEqual(h2[lData], h2[oldVal])
                THEN Notify(lFrozen, lData, oldVal) ELSE NoLog,
                Op("orderBy", <<"this">>))

\* remove(callback): what the callback is called with for the element at
\* position i (from 1) of the array cur, oldVal being the copy made first.
RemoveCallbackArgs_shrinking(cur, i, oldVal) ==
    [item |-> cur[i], index |-> 0, array |-> SubSeq(oldVal, i, Len(oldVal))]

RemoveCallbackArgs(cur, i, oldVal) ==
    [item |-> cur[i], index |-> i - 1, array |-> oldVal]

Remove(p) ==
    LET cur == lHeap[lData]
        h1 == CopyOf(lHeap, lData)
        oldVal == Alloc(lHeap)
        gone == {i \in 1 .. Len(cur) :
                    LET a == RemoveCallbackArgs(cur, i, h1[oldVal])
                    IN  Holds(p, a.item, a.index, a.array)}
        removedItems == Pick(cur, gone, 1)
        newRef == Alloc(h1)
        h2 == Put(h1, newRef, Pick(cur, (1 .. Len(cur)) \ gone, 1))
    IN  Mutated(h2, newRef,
                IF Len(removedItems) > 0
                THEN Notify(lFrozen, newRef, oldVal) ELSE NoLog,
                Op("remove", <<removedItems>>))

\* The callback of filterBy or remove throws at the element at position k
\* (from 1) of the array at reference d: Array.prototype.filter ends with the
\* error and the array it was building is lost; the assignment to data and
\* notify() come after it and are not reached.
Aborted_partial(h, d, k) ==
    [heap |-> Put(h, Alloc(h), SubSeq(h[d], 1, k - 1)), ref |-> Alloc(h)]

Aborted(h, d, k) == [heap |-> h, ref |-> d]

\* filterBy(callback), the callback throwing at the k-th element
FilterByThrows(k) ==
    /\ k \in 1 .. Len(lHeap[lData])
    /\ LET h1 == CopyOf(lHeap, lData)
           a == Aborted(h1, lData, k)
       IN  Mutated(a.heap, a.ref, NoLog, Op("filterBy throws", <<>>))

\* remove(callback), the callback throwing at the k-th element
RemoveThrows(k) ==
    /\ k \in 1 .. Len(lHeap[lData])
    /\ LET h1 == CopyOf(lHeap, lData)
           a == Aborted(h1, lData, k)
       IN  Mutated(a.heap, a.ref, NoLog, Op("remove throws", <<>>))

ListMutators ==
    {"push", "pop", "unshift", "shift", "splice", "removeByIndex", "filterBy",
     "orderBy", "remove", "set"}

\* A watcher that was called keeps one of its two arguments.
Retain(which) ==
    LET r == IF which = "new" THEN lLog.nr ELSE lLog.or
    IN  /\ lLog.ws # <<>>
        /\ FreeSlot # 0
        /\ \A i \in HeldSlots : lHeld[i].ref # r
        /\ Commit(lHeap, lData, lFrozenValue, lLog,
                  [lHeld EXCEPT ![FreeSlot] = [ref |-> r, by |-> "watcher"]],
                  OpAt("retain", FreeSlot))
        /\ UNCHANGED <<lFrozen, lWatchers>>

\* Code outside the list changes an array it holds: arr.push(v) or arr.pop().
HeldMutate(i, how, v) ==
    LET r == lHeld[i].ref
    IN  /\ r # 0
        /\ IF how = "pop" THEN Len(lHeap[r]) > 0 ELSE Len(lHeap[r]) < MaxLen
        /\ Commit([lHeap EXCEPT ![r] = IF how = "pop" THEN SubSeq(@, 1, Len(@) - 1)
                                                       ELSE Append(@, v)],
                  lData, lFrozenValue, lLog, lHeld, OpAt("heldMutate", i))
        /\ UNCHANGED <<lFrozen, lWatchers>>

\* Code outside the list lets go of an array.
Release(i) ==
    /\ lHeld[i].ref # 0
    /\ Commit(lHeap, lData, lFrozenValue, lLog, [lHeld EXCEPT ![i] = NoHold],
              OpAt("release", i))
    /\ UNCHANGED <<lFrozen, lWatchers>>

\* No notify() call is interrupted.
NoCall == [on |-> FALSE, changed |-> FALSE, later |-> FALSE, after |-> <<>>,
           saw |-> <<>>, nested |-> FALSE]

\* A step of a mutator is the call up to the end of its notify().  Here the
\* watchers do not just look: in the call that ran last, the k-th watcher
\* called calls the list.  The watchers before it have been called, the
\* ones after it (later: there are some) are called when it returns
\* (Resume), with the same two arrays; the first of these, whose contents
\* were after, is noted as held by notify().  The calls the watcher makes
\* are the steps in between.  changed: the interrupted call changed the
\* sequence.
Interrupt(k) ==
    /\ ~lCall.on
    /\ lOp.name \in ListMutators
    /\ k \in 1 .. Len(lLog.ws)
    /\ FreeSlot # 0
    /\ lCall' = [NoCall EXCEPT !.on = TRUE, !.later = k < Len(lLog.ws),
                              !.changed = lHeap[lLog.nr] # lHeap[lLog.or],
                              !.after = lHeap[lLog.nr]]
    /\ Commit(lHeap, lData, lFrozenValue, NoLog,
              [lHeld EXCEPT ![FreeSlot] = [ref |-> lLog.nr, by |-> "notify"]],
              OpAt("interrupt", FreeSlot))
    /\ UNCHANGED <<lFrozen, lWatchers, gHist, gSeen, gArgs, gBefore>>

\* The watcher returns and notify() goes on: the watchers after it are
\* called with the array as it is now (saw).
Resume ==
    /\ lCall.on
    /\ \E i \in HeldSlots :
          /\ lHeld[i].by = "notify"
          /\ lCall' = [lCall EXCEPT !.on = FALSE, !.saw = lHeap[lHeld[i].ref]]
          /\ Commit(lHeap, lData, lFrozenValue, NoLog, [lHeld EXCEPT ![i] = NoHold],
                    OpAt("resume", i))
    /\ UNCHANGED <<lFrozen, lWatchers, gHist, gSeen, gArgs, gBefore>>

\* The watchers notify() has called when the k-th of ws throws: the loop is
\* left with the error.
Called(ws, k) == SubSeq(ws, 1, k)

\* In the call that ran last the k-th watcher called throws: the error
\* leaves notify() and the mutator, after the mutator's changes.
Throw(k) ==
    /\ ~lCall.on
    /\ lOp.name \in ListMutators \cup {"begin"}
    /\ k \in 1 .. Len(lLog.ws)
    /\ Commit(lHeap, lData, lFrozenValue, [lLog EXCEPT !.ws = Called(@, k)],
              lHeld, Op("throw", <<lLog.ws[k]>>))
    /\ UNCHANGED <<lFrozen, lWatchers>>

\* Nothing noted.
NoHist == [paused |-> FALSE, again |-> FALSE, items |-> <<>>, pre |-> <<>>]

NoSeen == [nv |-> <<>>, ov |-> <<>>, pre |-> <<>>]

\* The step is noted: at pause() the sequence (items) and whether the list
\* was frozen already (again), with the sequence of the time it became frozen
\* (pre) kept until begin(); at a call of the watchers the contents of the two
\* arrays they get, and at begin() the sequence of the time the list became
\* frozen.
Noted ==
    /\ gHist' = CASE lOp'.name = "pause" ->
                       [paused |-> TRUE, again |-> lFrozen, items |-> lHeap[lData],
                        pre |-> IF lFrozen THEN gHist.pre ELSE lHeap[lData]]
                  [] lOp'.name = "begin" -> [gHist EXCEPT !.pre = <<>>]
                  [] OTHER -> gHist
    /\ gSeen' = IF lLog'.ws = <<>> THEN NoSeen
                ELSE [nv |-> lHeap'[lLog'.nr], ov |-> lHeap'[lLog'.or],
                      pre |-> IF lOp'.name = "begin" THEN gHist.pre ELSE <<>>]

Note ==
    /\ Noted
    /\ UNCHANGED <<gArgs, gBefore, lCall>>

\* The step is noted with its arguments and the sequence it found; of the
\* pause() calls only that there was one.
NoteCall(args) ==
    /\ gHist' = [NoHist EXCEPT !.paused = IF lOp'.name = "pause" THEN TRUE ELSE gHist.paused]
    /\ gSeen' = IF lLog'.ws = <<>> THEN NoSeen
                ELSE [NoSeen EXCEPT !.nv = lHeap'[lLog'.nr], !.ov = lHeap'[lLog'.or]]
    /\ gArgs' = args
    /\ gBefore' = lHeap[lData]
    /\ UNCHANGED lCall

\* The same, and of a call made by a watcher whether it changed the sequence.
NoteIn(args) ==
    /\ gHist' = gHist
    /\ gSeen' = IF lLog'.ws = <<>> THEN NoSeen
                ELSE [NoSeen EXCEPT !.nv = lHeap'[lLog'.nr], !.ov = lHeap'[lLog'.or]]
    /\ gArgs' = args
    /\ gBefore' = lHeap[lData]
    /\ lCall' = IF ~lCall.on THEN NoCall
                ELSE IF lHeap'[lData'] # lHeap[lData]
                     THEN [lCall EXCEPT !.nested = TRUE] ELSE lCall

\* The step is not noted.
Forget == UNCHANGED <<gHist, gSeen, gArgs, gBefore, lCall>>

\* new JinjxSignalList(initial): data is a copy of the argument; _frozenValue
\* is an empty array of its own.  The caller keeps the argument or not.
CtorCopy(h, r) == [heap |-> CopyOf(h, r), ref |-> Alloc(h)]

\* private _frozenValue: T[] = []
FrozenValueDefault_initial(initial) == initial

FrozenValueDefault(initial) == <<>>

InitListWith(initial, callerKeeps) ==
    LET c == CtorCopy((3 :> initial), 3)
        aliased == c.ref = 3
        d == 1
        f == 2
        arg == IF aliased THEN 1 ELSE 3
    IN  /\ lData = d
        /\ lFrozenValue = f
        /\ lHeap = IF callerKeeps /\ ~aliased
                   THEN (d :> initial) @@ (f :> FrozenValueDefault(initial))
                        @@ (arg :> initial)
                   ELSE (d :> initial) @@ (f :> FrozenValueDefault(initial))
        /\ lHeld = [i \in HeldSlots |->
                      IF callerKeeps /\ i = 1 THEN [ref |-> arg, by |-> "caller"]
                      ELSE NoHold]
        /\ lFrozen = FALSE
        /\ lWatchers = <<>>
        /\ lLog = NoLog
        /\ lOp = [name |-> "new", ret |-> <<>>, slot |-> IF callerKeeps THEN 1 ELSE 0,
                  was |-> FALSE]
        /\ gHist = NoHist
        /\ gSeen = NoSeen
        /\ gArgs = <<>>
        /\ gBefore = <<>>
        /\ lCall = NoCall

\* The arguments the calls below are made with.
OneItem == SeqsUpTo(ListValues, 1)
SpliceStarts == 0 .. 1
SpliceCounts == 0 .. 1
SpliceItems == {<<>>, <<1>>}
SomePreds == {"isOne", "firstIndex"}
SomeComparators == {"desc"}

NextList ==
    \/ Pause /\ Note
    \/ Begin /\ Note
    \/ GetValue(FALSE) /\ Note
    \/ \E s \in OneItem : SetValueLiteral(s) /\ Note
    \/ \E w \in ListWatchers : Listener(w) /\ Note
    \/ \E w \in ListWatchers : Stop(w) /\ Note
    \/ \E items \in OneItem : Push(items) /\ Note
    \/ Pop /\ Note
    \/ \E items \in OneItem : Unshift(items) /\ Note
    \/ Shift /\ Note
    \/ \E start \in SpliceStarts, dc \in SpliceCounts, items \in SpliceItems :
          Splice(start, TRUE, dc, items) /\ Note
    \/ \E start \in SpliceStarts : Splice(start, FALSE, 0, <<>>) /\ Note
    \/ \E index \in 0 .. MaxLen : RemoveByIndex(index) /\ Note
    \/ \E p \in SomePreds : FilterBy(p) /\ Note
    \/ \E c \in SomeComparators : OrderBy(c) /\ Note
    \/ \E p \in SomePreds : Remove(p) /\ Note

\* Every operation with every kind of argument: no items and some, indices
\* and starts below, in and beyond the range, deleteCount given or not.
Indices == -1 .. MaxLen

\* No item, one item, two different items.
SomeItems == OneItem \cup {<<1, 2>>}

NextOps ==
    \/ Pause /\ NoteCall(<<>>)
    \/ Begin /\ NoteCall(<<>>)
    \/ \E w \in ListWatchers : Listener(w) /\ NoteCall(<<w>>)
    \/ \E s \in OneItem : SetValueLiteral(s) /\ NoteCall(<<s>>)
    \/ \E items \in SomeItems : Push(items) /\ NoteCall(<<items>>)
    \/ Pop /\ NoteCall(<<>>)
    \/ \E items \in SomeItems : Unshift(items) /\ NoteCall(<<items>>)
    \/ Shift /\ NoteCall(<<>>)
    \/ \E start \in Indices, dc \in 0 .. MaxLen, items \in SpliceItems :
          Splice(start, TRUE, dc, items) /\ NoteCall(<<start, TRUE, dc, items>>)
    \/ \E start \in Indices :
          Splice(start, FALSE, 0, <<>>) /\ NoteCall(<<start, FALSE, 0, <<>>>>)
    \/ \E index \in Indices : RemoveByIndex(index) /\ NoteCall(<<index>>)
    \/ \E p \in Preds : FilterBy(p) /\ NoteCall(<<p>>)
    \/ \E c \in Comparators : OrderBy(c) /\ NoteCall(<<c>>)
    \/ \E p \in Preds : Remove(p) /\ NoteCall(<<p>>)
    \/ \E k \in 1 .. MaxLen : FilterByThrows(k) /\ NoteCall(<<k>>)
    \/ \E k \in 1 .. MaxLen : RemoveThrows(k) /\ NoteCall(<<k>>)

\* The watchers call the list while they are being notified.
NextReenter ==
    \/ \E w \in ListWatchers : ~lCall.on /\ Listener(w) /\ NoteIn(<<w>>)
    \/ \E s \in {<<>>, <<2>>} : SetValueLiteral(s) /\ NoteIn(<<s>>)
    \/ Push(<<1>>) /\ NoteIn(<<<<1>>>>)
    \/ Pop /\ NoteIn(<<>>)
    \/ Unshift(<<2>>) /\ NoteIn(<<<<2>>>>)
    \/ Shift /\ NoteIn(<<>>)
    \/ Splice(1, TRUE, 1, <<1>>) /\ NoteIn(<<1, TRUE, 1, <<1>>>>)
    \/ RemoveByIndex(0) /\ NoteIn(<<0>>)
    \/ FilterBy("isOne") /\ NoteIn(<<"isOne">>)
    \/ OrderBy("desc") /\ NoteIn(<<"desc">>)
    \/ Remove("isOne") /\ NoteIn(<<"isOne">>)
    \/ \E k \in 1 .. 2 : Interrupt(k)
    \/ Resume

\* The program registers and removes watchers, of a signal or of a list
\* (the two do not meet: the program stays with the object it first calls),
\* and makes the calls that notify them.
OnSignal == lOp.name = "new"

OnList == sDone.kind = None /\ sListeners = <<>> /\ sStack = <<>>

NextRegister ==
    \/ \E v \in SigValues : OnSignal /\ SetValue(v)
    \/ \E w \in SigWatchers : OnSignal /\ Listens(w)
    \/ \E w \in SigWatchers : OnSignal /\ Off(w)
    \/ OnSignal /\ Dispatch
    \/ OnSignal /\ WatcherReturn
    \/ OnSignal /\ NotifyReturn
    \/ \E w \in ListWatchers : OnList /\ Listener(w) /\ NoteCall(<<w>>)
    \/ \E w \in ListWatchers : OnList /\ Stop(w) /\ NoteCall(<<w>>)
    \/ \E s \in OneItem : OnList /\ SetValueLiteral(s) /\ NoteCall(<<s>>)
    \/ \E items \in OneItem : OnList /\ Push(items) /\ NoteCall(<<items>>)
    \/ OnList /\ Pop /\ NoteCall(<<>>)

\* The same calls, with watchers that throw.
NextThrow ==
    \/ NextRegister
    \/ OnSignal /\ WatcherThrow
    \/ \E k \in 1 .. Cardinality(ListWatchers) : OnList /\ Throw(k) /\ Forget

\* The callers keep and change the arrays they pass in and get back.
NextAlias ==
    \/ \E keep \in BOOLEAN : GetValue(keep) /\ Forget
    \/ \E s \in OneItem : SetValueLiteral(s) /\ Forget
    \/ \E i \in HeldSlots : SetValueHeld(i) /\ Forget
    \/ \E items \in OneItem : Push(items) /\ Forget
    \/ Pop /\ Forget
    \/ \E items \in OneItem : Unshift(items) /\ Forget
    \/ Shift /\ Forget
    \/ \E start \in SpliceStarts, dc \in SpliceCounts, items \in SpliceItems :
          Splice(start, TRUE, dc, items) /\ Forget
    \/ \E index \in 0 .. MaxLen : RemoveByIndex(index) /\ Forget
    \/ \E p \in SomePreds : FilterBy(p) /\ Forget
    \/ \E c \in SomeComparators : OrderBy(c) /\ Forget
    \/ \E p \in SomePreds : Remove(p) /\ Forget
    \/ \E i \in HeldSlots, v \in ListValues : HeldMutate(i, "push", v) /\ Forget
    \/ \E i \in HeldSlots : HeldMutate(i, "pop", 0) /\ Forget
    \/ \E i \in HeldSlots : Release(i) /\ Forget

\* A watcher keeps and changes the arrays it is called with.
NextWatch ==
    \/ Pause /\ Forget
    \/ Begin /\ Forget
    \/ Listener("v1") /\ Forget
    \/ SetValueLiteral(<<2>>) /\ Forget
    \/ Push(<<1>>) /\ Forget
    \/ Pop /\ Forget
    \/ Unshift(<<2>>) /\ Forget
    \/ Shift /\ Forget
    \/ Splice(1, TRUE, 1, <<1>>) /\ Forget
    \/ RemoveByIndex(0) /\ Forget
    \/ FilterBy("isOne") /\ Forget
    \/ OrderBy("desc") /\ Forget
    \/ Remove("isOne") /\ Forget
    \/ \E which \in {"new", "old"} : Retain(which) /\ Forget
    \/ \E i \in HeldSlots, v \in ListValues : HeldMutate(i, "push", v) /\ Forget
    \/ \E i \in HeldSlots : HeldMutate(i, "pop", 0) /\ Forget
    \/ \E i \in HeldSlots : Release(i) /\ Forget

(***************************************************************************)
(* JinjxScope                                                              *)
(***************************************************************************)

ScTop == scStack[Len(scStack)]

\* The arrays there can be: the one _effectStore refers to and one for each
\* dispose() in progress that still iterates an array _effectStore has left.
ArrIds == 1 .. (MaxDepth + 1)

\* The code that calls the scope: code outside any dispose(), or the cleanup
\* action (one passed to effect()) that is running.
MayCall ==
    IF scStack = <<>> THEN TRUE
    ELSE IF ScTop.cur = 0 THEN FALSE ELSE scRegs[ScTop.cur] = "effect"

\* The names of the events of the host.
EventNames == {"click", "input"}

\* What has just ended: a dispose() (it returned or threw; clean: it was
\* called with nothing registered since a dispose() returned; ran: it called
\* a cleanup action; plain: it was called from outside and no cleanup action
\* called dispose() during it; upto, rest: the elements of its array that
\* its loop had reached and had not; base: scRuns as it found it) or an
\* event of the host (its name, whether its target matches the selector,
\* the delegate() registrations whose handler ran).
NoScDone == [kind |-> None, clean |-> FALSE, ran |-> FALSE, name |-> None,
             matches |-> FALSE, invoked |-> {}, plain |-> FALSE,
             upto |-> <<>>, rest |-> <<>>, base |-> <<>>]

\* The dispose() calls in progress are no longer plain ones.
NotPlain(st) == [i \in DOMAIN st |-> [st[i] EXCEPT !.plain = FALSE]]

\* What the dispose() call in progress innermost leaves noted when it ends.
Ended(kind) ==
    [NoScDone EXCEPT
        !.kind = kind, !.clean = ScTop.clean, !.ran = ScTop.ran,
        !.plain = ScTop.plain, !.base = ScTop.base,
        !.upto = SubSeq(scArrays[ScTop.arr], 1, ScTop.idx),
        !.rest = SubSeq(scArrays[ScTop.arr], ScTop.idx + 1, Len(scArrays[ScTop.arr]))]

\* this._effectStore.push(fn)
Register(kind) ==
    /\ MayCall
    /\ Len(scRegs) < MaxRegs
    /\ scRegs' = Append(scRegs, kind)
    /\ scArrays' = [scArrays EXCEPT ![effectStore] = Append(@, Len(scRegs) + 1)]
    /\ scFresh' = FALSE
    /\ scDone' = NoScDone
    /\ UNCHANGED <<effectStore, scStack, scRuns, scThrew, scGone>>
    /\ UNCHANGED notScope

\* effect(effectFn)
Effect ==
    /\ Register("effect")
    /\ UNCHANGED hostListeners

\* delegate(eventName, selector, eventHandler): host.event() adds the
\* listener and returns the function that removes it; the registration is
\* known by the name of its event.
Delegate(eventName) ==
    /\ Register(eventName)
    /\ hostListeners' = hostListeners \cup {Len(scRegs) + 1}

\* An event of the host: the listeners added for its name run, and each
\* calls its eventHandler if the target matches the selector.
HostEvent(eventName, matches) ==
    /\ MayCall
    /\ scDone' = [NoScDone EXCEPT
                    !.kind = "event", !.name = eventName, !.matches = matches,
                    !.invoked = IF matches
                                THEN {e \in hostListeners : scRegs[e] = eventName}
                                ELSE {}]
    /\ UNCHANGED <<effectStore, scArrays, scStack, scRegs, hostListeners, scRuns,
                   scFresh, scThrew, scGone>>
    /\ UNCHANGED notScope

\* dispose() is called: the loop starts on the array _effectStore refers to.
DisposeCall ==
    /\ MayCall
    /\ Len(scStack) < MaxDepth
    /\ scStack' = Append(NotPlain(scStack),
                         [arr |-> effectStore, idx |-> 0, cur |-> 0,
                          clean |-> scFresh, ran |-> FALSE,
                          plain |-> scStack = <<>>, base |-> scRuns])
    /\ scDone' = NoScDone
    /\ UNCHANGED <<effectStore, scArrays, scRegs, hostListeners, scRuns, scFresh,
                   scThrew, scGone>>
    /\ UNCHANGED notScope

\* for (const effect of this._effectStore) effect(): the next element of
\* the array, as long as it is now, is called.
DisposeNext ==
    /\ scStack # <<>>
    /\ ScTop.cur = 0
    /\ ScTop.idx < Len(scArrays[ScTop.arr])
    /\ LET e == scArrays[ScTop.arr][ScTop.idx + 1]
       IN  /\ scStack' = [scStack EXCEPT ![Len(scStack)] =
                              [@ EXCEPT !.idx = @ + 1, !.cur = e, !.ran = TRUE]]
           /\ scRuns' = [scRuns EXCEPT ![e] = Min(@ + 1, MaxRuns)]
           /\ hostListeners' = IF scRegs[e] \in EventNames THEN hostListeners \ {e}
                                                        ELSE hostListeners
    /\ scDone' = NoScDone
    /\ UNCHANGED <<effectStore, scArrays, scRegs, scFresh, scThrew, scGone>>
    /\ UNCHANGED notScope

\* The cleanup action that is running returns.
CleanupReturn ==
    /\ scStack # <<>>
    /\ ScTop.cur # 0
    /\ scStack' = [scStack EXCEPT ![Len(scStack)] = [@ EXCEPT !.cur = 0]]
    /\ scDone' = NoScDone
    /\ UNCHANGED <<effectStore, scArrays, scRegs, hostListeners, scRuns, scFresh,
                   scThrew, scGone>>
    /\ UNCHANGED notScope

\* The arrays that are still referred to, the others being empty.
Kept(arrays, used) == [a \in ArrIds |-> IF a \in used THEN arrays[a] ELSE <<>>]

\* The arrays after a throw: the statement this._effectStore = [] is not
\* reached, so the array _effectStore refers to stays as it is.
ThrownStore_cleared(arrays) == [a \in ArrIds |-> <<>>]

ThrownStore(arrays) == Kept(arrays, {effectStore})

\* The cleanup action that is running throws: every dispose() in progress
\* ends there, none reaching its last statement.
CleanupThrow ==
    /\ scStack # <<>>
    /\ ScTop.cur # 0
    /\ scRegs[ScTop.cur] = "effect"
    /\ scStack' = <<>>
    /\ scArrays' = ThrownStore(scArrays)
    /\ scThrew' = TRUE
    /\ scDone' = Ended("throw")
    /\ UNCHANGED <<effectStore, scRegs, hostListeners, scRuns, scFresh, scGone>>
    /\ UNCHANGED notScope

\* this._effectStore = []: a new, empty array; used are the arrays the
\* dispose() calls still in progress iterate.
EmptiedStore_kept(used) == [ref |-> effectStore, arrays |-> scArrays]

EmptiedStore(used) ==
    LET new == CHOOSE a \in ArrIds \ used : \A b \in ArrIds \ used : a <= b
    IN  [ref |-> new, arrays |-> Kept(scArrays, used)]

\* The loop of dispose() is at the end of its array: dispose() returns.
DisposeReturn ==
    /\ scStack # <<>>
    /\ ScTop.cur = 0
    /\ ScTop.idx >= Len(scArrays[ScTop.arr])
    /\ LET rest == SubSeq(scStack, 1, Len(scStack) - 1)
           st == EmptiedStore({rest[i].arr : i \in DOMAIN rest})
       IN  /\ scStack' = rest
           /\ effectStore' = st.ref
           /\ scArrays' = st.arrays
    /\ scFresh' = TRUE
    /\ scGone' = DOMAIN scRegs
    /\ scDone' = Ended("return")
    /\ UNCHANGED <<scRegs, hostListeners, scRuns, scThrew>>
    /\ UNCHANGED notScope

\* new JinjxScope(host)
InitScope ==
    /\ effectStore = 1
    /\ scArrays = [a \in ArrIds |-> <<>>]
    /\ scStack = <<>>
    /\ scRegs = <<>>
    /\ hostListeners = {}
    /\ scRuns = [e \in 1 .. MaxRegs |-> 0]
    /\ scFresh = FALSE
    /\ scThrew = FALSE
    /\ scGone = {}
    /\ scDone = NoScDone

NextScope ==
    \/ Effect
    \/ \E eventName \in EventNames : Delegate(eventName)
    \/ \E eventName \in EventNames, matches \in BOOLEAN : HostEvent(eventName, matches)
    \/ DisposeCall
    \/ DisposeNext
    \/ CleanupReturn
    \/ CleanupThrow
    \/ DisposeReturn

(***************************************************************************)
(* state(reaction, initialValue)                                           *)
(***************************************************************************)

\* notify(newVal, oldVal) calls watcher(newVal, oldVal): the arguments of the
\* call, in order.
WatcherArgs(newVal, oldVal) == <<newVal, oldVal>>

\* reaction: (oldVal: T, newVal: T) => void is registered as the watcher, so
\* its parameters are bound by position.
Reaction(args) == [oldVal |-> args[1], newVal |-> args[2]]

\* const signal = new JinjxSignal(initialValue); signal.listens(reaction)
InitStateWith(initialValue) ==
    /\ stValue = initialValue
    /\ stLog = <<>>
    /\ stOp = [name |-> "state", arg |-> initialValue, before |-> initialValue,
               ret |-> initialValue, called |-> FALSE]

\* set(value): signal.value = value
StateSet(value) ==
    /\ Len(stLog) < MaxCalls
    /\ IF changed(value, stValue)
       THEN /\ stValue' = value
            /\ stLog' = Append(stLog, Reaction(WatcherArgs(value, stValue)))
       ELSE UNCHANGED <<stValue, stLog>>
    /\ stOp' = [name |-> "set", arg |-> value, before |-> stValue, ret |-> value,
                called |-> changed(value, stValue)]
    /\ UNCHANGED notState

\* get(): signal.value
StateGet ==
    /\ stOp' = [name |-> "get", arg |-> stValue, before |-> stValue,
                ret |-> stValue, called |-> FALSE]
    /\ UNCHANGED <<stValue, stLog>>
    /\ UNCHANGED notState

NextState ==
    \/ \E value \in StateValues : StateSet(value)
    \/ StateGet

(***************************************************************************)
(* Specifications                                                          *)
(***************************************************************************)

\* A signal and the code that writes it, registers watchers and runs in them.
StartSignal ==
    /\ \E initialValue \in SigValues : InitSignalWith(initialValue)
    /\ InitListWith(<<>>, FALSE)
    /\ InitScope
    /\ InitStateWith(0)

SpecSignal == StartSignal /\ [][NextSignal]_vars

\* A list whose watchers look at their arguments and keep nothing; the list
\* is built from an array literal.
StartList ==
    /\ InitSignalWith(0)
    /\ \E initial \in Arrays : InitListWith(initial, FALSE)
    /\ InitScope
    /\ InitStateWith(0)

SpecList == StartList /\ [][NextList]_vars

\* A list whose callers keep and change the arrays they pass in and get
\* back; the list is built from an array the caller goes on holding.
StartAlias ==
    /\ InitSignalWith(0)
    /\ \E initial \in Arrays : InitListWith(initial, TRUE)
    /\ InitScope
    /\ InitStateWith(0)

SpecAlias == StartAlias /\ [][NextAlias]_vars

\* A list whose watcher keeps and changes the arrays it is called with.
SpecWatch == StartList /\ [][NextWatch]_vars

\* A list and the code that calls each of its operations with every kind of
\* argument, the watchers only looking at what they are called with.
SpecOps == StartList /\ [][NextOps]_vars

\* A list whose watchers call it while they are being notified.
SpecReenter == StartList /\ [][NextReenter]_vars

\* A signal or a list, and the code that registers and removes watchers.
StartRegister ==
    /\ \E initialValue \in SigValues : InitSignalWith(initialValue)
    /\ InitListWith(<<>>, FALSE)
    /\ InitScope
    /\ InitStateWith(0)

SpecRegister == StartRegister /\ [][NextRegister]_vars

StartThrow == StartRegister

SpecThrow == StartThrow /\ [][NextThrow]_vars

\* A signal made by state() and the code that calls its get and set.
StartState ==
    /\ InitSignalWith(0)
    /\ InitListWith(<<>>, FALSE)
    /\ InitScope
    /\ \E initialValue \in StateValues : InitStateWith(initialValue)

SpecState == StartState /\ [][NextState]_vars

\* A scope, the code that registers cleanup actions and disposes of it, and
\* the cleanup actions, which may call the scope themselves.
StartScope ==
    /\ InitSignalWith(0)
    /\ InitListWith(<<>>, FALSE)
    /\ InitScope
    /\ InitStateWith(0)

SpecScope == StartScope /\ [][NextScope]_vars

(***************************************************************************)
(* Claims about JinjxSignal                                                *)
(***************************************************************************)

\* The watchers called by the write that has just returned: once each.
CalledOnce(d) == \A w \in SigWatchers : d.calls[w] = IF w \in d.reg THEN 1 ELSE 0

\* C1: with the set of registered watchers fixed during a write, a write of
\* a value that differs from the stored one calls every registered watcher
\* exactly once, and a write of the value the signal already holds calls no
\* watcher and leaves the stored value as it was.
C1_OncePerChangedWrite ==
    sDone.kind = "write" =>
        /\ sDone.nv = sDone.ov =>
              /\ \A w \in SigWatchers : sDone.calls[w] = 0
              /\ sDone.after = sDone.ov
        /\ (sDone.nv # sDone.ov /\ sDone.fixed) => CalledOnce(sDone)

C1_Witness ==
    /\ sDone.kind = "write"
    /\ sDone.nv # sDone.ov
    /\ sDone.fixed
    /\ sDone.reg = SigWatchers
    /\ \A w \in SigWatchers : sDone.calls[w] = 1

\* C7: every accepted write calls exactly the watchers registered when the
\* write began, once each, also when a watcher calls listens/off during the
\* notification (the dispatch would iterate a snapshot of the set).
C7_SnapshotDispatch ==
    (sDone.kind = "write" /\ sDone.nv # sDone.ov) => CalledOnce(sDone)

EachOnce ==
    \A w \in ListWatchers :
        Cardinality({i \in DOMAIN lLog.ws : lLog.ws[i] = w})
            = IF w \in Range(lWatchers) THEN 1 ELSE 0

\* C2: while the list is frozen no mutating operation calls a watcher, and
\* the operations still change the items: push and unshift add their
\* arguments, pop and shift take an element away, and a read of .value
\* returns the sequence as the operations have left it.
C2_FrozenMutatorsSilent ==
    [][lFrozen =>
          /\ lOp'.name \in ListMutators =>
                /\ lLog'.ws = <<>>
                /\ gSeen' = NoSeen
                /\ lFrozen'
          /\ lOp'.name = "push" =>
                \E items \in OneItem : /\ Items' = Items \o items
                                       /\ lOp'.ret = <<Len(Items) + Len(items)>>
          /\ lOp'.name = "unshift" =>
                \E items \in OneItem : /\ Items' = items \o Items
                                       /\ lOp'.ret = <<Len(Items) + Len(items)>>
          /\ lOp'.name = "pop" => Items' = SubSeq(Items, 1, Len(Items) - 1)
          /\ lOp'.name = "shift" => Items' = SubSeq(Items, 2, Len(Items))
          /\ lOp'.name = "get" => /\ lOp'.ret = <<Items>>
                                  /\ Items' = Items]_vars

C2_Witness ==
    /\ lOp.name = "push"
    /\ lOp.was
    /\ lFrozen
    /\ Range(lWatchers) = ListWatchers
    /\ lLog.ws = <<>>
    /\ Items # gHist.items

\* C3: begin() leaves the list unfrozen and calls every registered watcher
\* exactly once, with newValue the current sequence and oldValue the sequence
\* as it was at the most recent pause(), whatever was done in between.
C3_BeginNotifiesOnce ==
    lOp.name = "begin" =>
        /\ ~lFrozen
        /\ EachOnce
        /\ (lWatchers # <<>> /\ gHist.paused) =>
              /\ gSeen.nv = Items
              /\ gSeen.ov = gHist.items

C3_Witness ==
    /\ lOp.name = "begin"
    /\ lOp.was
    /\ Range(lLog.ws) = ListWatchers
    /\ gSeen.ov = <<1, 2>>
    /\ gSeen.nv = <<2, 1>>
    /\ gHist.items = <<1, 2>>

\* C4: the oldValue of the notification of a begin() that unfreezes the list
\* is the sequence as it was when the list went from unfrozen to frozen,
\* also when pause() was called again while the list was frozen.
C4_OldValueIsPreFreeze ==
    (lOp.name = "begin" /\ lOp.was /\ lLog.ws # <<>>) => gSeen.ov = gSeen.pre

\* C4, amended: that oldValue is the sequence as it was at the most recent
\* pause(); it is the sequence of the time the list became frozen when
\* pause() was not called again while the list was frozen.
C4_OldValueIsLastPause ==
    (lOp.name = "begin" /\ lOp.was /\ lLog.ws # <<>>) =>
        /\ gSeen.ov = gHist.items
        /\ ~gHist.again => gSeen.ov = gSeen.pre

C4_Witness ==
    /\ lOp.name = "begin"
    /\ lOp.was
    /\ lLog.ws # <<>>
    /\ gHist.again
    /\ gSeen.ov = gHist.items
    /\ gSeen.ov # gSeen.pre

\* C5: the two arrays a watcher is called with are copies: a watcher that
\* keeps one and changes it changes neither the items nor the frozen
\* baseline of the list, and no operation of the list changes an array a
\* watcher has kept.
C5_WatcherArgsAreCopies ==
    [][/\ lOp'.name = "heldMutate" =>
            /\ Items' = Items
            /\ Baseline' = Baseline
      /\ lOp'.name \in ListMutators \cup {"pause", "begin"} =>
            \A i \in HeldSlots :
                (lHeld[i].by = "watcher" /\ lHeld'[i].by = "watcher") =>
                    lHeap'[lHeld'[i].ref] = lHeap[lHeld[i].ref]]_vars

\* No array held outside the list is the list's data.
NoAlias == \A i \in HeldSlots : lHeld[i].ref # 0 => lHeld[i].ref # lData

\* C6: the items are never an array that code outside the list holds: not
\* the constructor's argument, not the array given to the setter, not an
\* array returned by .value; so a change of such an array leaves the items
\* as they were, and a read of .value returns the items as the last mutator
\* left them, in an array of its own.
C6_NoAliasThroughReadWrite ==
    /\ NoAlias
    /\ [][/\ NoAlias'
          /\ lOp'.name = "heldMutate" => Items' = Items
          /\ lOp'.name = "get" => /\ lOp'.ret = <<Items>>
                                  /\ Items' = Items
          /\ lOp'.name \in ListMutators =>
                \A i \in HeldSlots :
                    (lHeld[i].ref # 0 /\ lHeld'[i].ref # 0) =>
                        lHeap'[lHeld'[i].ref] = lHeap[lHeld[i].ref]]_vars

C6_Witness ==
    /\ lOp.name = "heldMutate"
    /\ lHeld[lOp.slot].by = "caller"
    /\ lHeap[lHeld[lOp.slot].ref] = <<1, 2>>
    /\ Items = <<1>>

(***************************************************************************)
(* Claims about JinjxScope                                                 *)
(***************************************************************************)

\* C9: when a dispose() called from outside has returned and no cleanup
\* action has thrown, every cleanup action registered so far, by effect() or
\* by delegate(), has run exactly once, also when a cleanup action called
\* dispose() itself, and the action list is empty.
C9_EachCleanupOnce ==
    (scDone.kind = "return" /\ scStack = <<>> /\ ~scThrew) =>
        /\ scArrays[effectStore] = <<>>
        /\ \A e \in DOMAIN scRegs : scRuns[e] = 1

\* C10: a dispose() called after a dispose() has returned, with no effect()
\* and no delegate() in between, calls no cleanup action and does not throw.
C10_SecondDisposeNoOp ==
    /\ \A i \in DOMAIN scStack : scStack[i].clean => ~scStack[i].ran
    /\ scDone.clean => (scDone.kind = "return" /\ ~scDone.ran)

C10_Witness ==
    /\ scDone.kind = "return"
    /\ scDone.clean
    /\ scStack = <<>>
    /\ Len(scRegs) = 2
    /\ \A e \in DOMAIN scRegs : scRuns[e] = 1

\* C11: an event of the host, dispatched outside any dispose() and with no
\* cleanup action having thrown, calls the handler of a delegate()
\* registration if and only if the registration is for the event's name,
\* the target matches the selector, and no dispose() has returned since the
\* delegate() call.
C11_DelegatedUntilDisposed ==
    (scDone.kind = "event" /\ scStack = <<>> /\ ~scThrew) =>
        scDone.invoked = {e \in DOMAIN scRegs : /\ scRegs[e] = scDone.name
                                               /\ scDone.matches
                                               /\ e \notin scGone}

(***************************************************************************)
(* Claims about watchers that call the list                                *)
(***************************************************************************)

\* A call of a mutator on an unfrozen list that changed the sequence called
\* every registered watcher once, with the sequence it left and the one it
\* found.
ChangeCallsEach ==
    (lOp.name \in ListMutators /\ ~lOp.was /\ Items # gBefore) =>
        /\ lLog.ws = lWatchers
        /\ lWatchers # <<>> => gSeen.nv = Items /\ gSeen.ov = gBefore

\* For a call that changed the sequence, a watcher was called after one
\* that had called the list.
CalledLater == lOp.name = "resume" /\ lCall.later /\ lCall.changed

\* C12: a mutator call that changes the sequence of an unfrozen list calls
\* every registered watcher once with the sequence it left and the one it
\* found, also when a watcher calls the list during the notification.
C12_AlsoWhenWatcherMutates ==
    /\ ChangeCallsEach
    /\ CalledLater => lCall.saw = lCall.after

(***************************************************************************)
(* Claims about the operations of JinjxSignalList, one call at a time      *)
(***************************************************************************)

\* C13: a call of push, unshift, pop, shift, splice, removeByIndex, filterBy,
\* remove or orderBy that leaves the sequence as it found it calls no
\* watcher.
C13_UnchangedIsSilent ==
    (lOp.name \in ListMutators \ {"set"} /\ Items = gBefore) => lLog.ws = <<>>

\* C14 as stated: in every state of the list, assigning a sequence to value
\* makes it the items and calls every registered watcher once.
C14_SetAlwaysNotifies ==
    lOp.name = "set" => Items = gArgs[1] /\ lLog.ws = lWatchers

\* C14: assigning a sequence to value makes it the items; on an unfrozen
\* list every registered watcher is called once, with the new and the
\* previous sequence, whether or not the two are equal; on a frozen list no
\* watcher is called.
C14_SetNotifiesUnlessFrozen ==
    lOp.name = "set" =>
        /\ Items = gArgs[1]
        /\ lLog.ws = IF lOp.was THEN <<>> ELSE lWatchers
        /\ lLog.ws # <<>> => gSeen.nv = gArgs[1] /\ gSeen.ov = gBefore

\* An unfrozen list with two watchers was assigned the sequence it held.
C14_Witness ==
    /\ lOp.name = "set"
    /\ ~lOp.was
    /\ gArgs[1] = gBefore
    /\ gBefore # <<>>
    /\ Len(lLog.ws) = 2

\* C15: begin() on a list on which pause() was never called leaves the list
\* unfrozen and calls every registered watcher once, with the current
\* sequence as the new value and the empty sequence as the old one.
C15_BeginWithoutPause ==
    (lOp.name = "begin" /\ ~gHist.paused) =>
        /\ ~lFrozen
        /\ lLog.ws = lWatchers
        /\ lWatchers # <<>> => gSeen.nv = Items /\ gSeen.ov = <<>>

\* begin() ran on a list with items and two watchers, never paused.
C15_Witness ==
    /\ lOp.name = "begin"
    /\ ~gHist.paused
    /\ Items # <<>>
    /\ Len(lLog.ws) = 2
    /\ gSeen.ov = <<>>

\* A call that has nothing to remove: pop() or shift() on an empty list,
\* removeByIndex(index) with index below 0 or not below the length.
NothingToRemove ==
    \/ lOp'.name \in {"pop", "shift"} /\ Items = <<>>
    \/ lOp'.name = "removeByIndex" /\ (gArgs'[1] < 0 \/ gArgs'[1] >= Len(Items))

\* C16: a call that has nothing to remove returns undefined, calls no
\* watcher and leaves the items, the frozen flag and the baseline as they
\* were, each time it is made.
C16_NothingToRemove ==
    [][NothingToRemove =>
          /\ lOp'.ret = <<>>
          /\ lLog'.ws = <<>>
          /\ Items' = Items
          /\ lFrozen' = lFrozen
          /\ Baseline' = Baseline]_vars

\* removeByIndex(-1) ran on an unfrozen list with items and a watcher.
C16_Witness ==
    /\ lOp.name = "removeByIndex"
    /\ gArgs[1] = -1
    /\ lOp.ret = <<>>
    /\ Items # <<>>
    /\ Items = gBefore
    /\ lWatchers # <<>>
    /\ ~lFrozen

\* The positions of the sequence that filterBy or remove found at which the
\* callback of the call holds.
Chosen == {i \in 1 .. Len(gBefore) : Holds(gArgs[1], gBefore[i], i - 1, gBefore)}

Others == (1 .. Len(gBefore)) \ Chosen

\* C17: filterBy(predicate) leaves the elements that satisfy the predicate,
\* in order, returns those that do not, in order, and calls the watchers of
\* an unfrozen list if and only if it dropped an element.
C17_FilterByPartitions ==
    lOp.name = "filterBy" =>
        /\ Items = Pick(gBefore, Chosen, 1)
        /\ lOp.ret = <<Pick(gBefore, Others, 1)>>
        /\ ~lOp.was => lLog.ws = IF Others # {} THEN lWatchers ELSE <<>>

\* C18: remove(predicate) calls the predicate with each element, its index
\* and the sequence as the call found it, leaves the elements for which it
\* does not hold, in order, returns those for which it holds, in order, and
\* calls the watchers of an unfrozen list, once each, if and only if it
\* removed an element.
C18_RemovePartitions ==
    lOp.name = "remove" =>
        /\ Items = Pick(gBefore, Others, 1)
        /\ lOp.ret = <<Pick(gBefore, Chosen, 1)>>
        /\ ~lOp.was => lLog.ws = IF Chosen # {} THEN lWatchers ELSE <<>>
        /\ lLog.ws # <<>> => gSeen.nv = Items /\ gSeen.ov = gBefore

\* Removing the even numbers from [1, 2] returned [2], left [1] and called
\* the two watchers.
C18_Witness ==
    /\ lOp.name = "remove"
    /\ gArgs = <<"isEven">>
    /\ gBefore = <<1, 2>>
    /\ lOp.ret = <<<<2>>>>
    /\ Items = <<1>>
    /\ Len(lLog.ws) = 2

\* The sequence is in the order of the comparator c.
InOrder(seq, c) == \A i \in 1 .. (Len(seq) - 1) : Compare(c, seq[i], seq[i + 1]) <= 0

\* The sequences hold the same elements, each as often.
SameElements(s, t) ==
    /\ Len(s) = Len(t)
    /\ \A v \in ListValues :
          Cardinality({i \in 1 .. Len(s) : s[i] = v}) =
          Cardinality({i \in 1 .. Len(t) : t[i] = v})

\* C19: orderBy(compareFn) leaves the elements it found in the order of
\* compareFn, returns the list itself, and calls the watchers of an unfrozen
\* list, once each with the sorted and the previous sequence, if and only if
\* the two differ.
C19_OrderBySorts ==
    lOp.name = "orderBy" =>
        /\ InOrder(Items, gArgs[1])
        /\ SameElements(Items, gBefore)
        /\ lOp.ret = <<"this">>
        /\ ~lOp.was => lLog.ws = IF Items # gBefore THEN lWatchers ELSE <<>>
        /\ lLog.ws # <<>> => gSeen.nv = Items /\ gSeen.ov = gBefore

\* Sorting [2, 1] ascending called the two watchers with [1, 2] and [2, 1].
C19_Witness ==
    /\ lOp.name = "orderBy"
    /\ gArgs = <<"asc">>
    /\ Len(lLog.ws) = 2
    /\ gSeen.nv = <<1, 2>>
    /\ gSeen.ov = <<2, 1>>

\* The position (from 0) at which splice(start, ...) acts on the sequence it
\* found: start, counted from the end if negative, within the sequence.
SpliceAt ==
    IF gArgs[1] < 0 THEN Max(Len(gBefore) + gArgs[1], 0) ELSE Min(gArgs[1], Len(gBefore))

\* The number of elements it removes: deleteCount, none if it was omitted,
\* and no more than there are from that position on.
SpliceGone == Min(IF gArgs[2] THEN gArgs[3] ELSE 0, Len(gBefore) - SpliceAt)

C21_PushAppendsUnshiftPrepends ==
    lOp.name \in {"push", "unshift"} =>
        /\ Items = IF lOp.name = "push" THEN gBefore \o gArgs[1]
                                        ELSE gArgs[1] \o gBefore
        /\ lOp.ret = <<Len(gBefore) + Len(gArgs[1])>>
        /\ (~lOp.was /\ gArgs[1] # <<>>) =>
              /\ lLog.ws = lWatchers
              /\ lWatchers # <<>> => gSeen.nv = Items /\ gSeen.ov = gBefore

\* unshift(1, 2) on an empty list with two watchers left [1, 2].
C21_Witness ==
    /\ lOp.name = "unshift"
    /\ gArgs = <<<<1, 2>>>>
    /\ gBefore = <<>>
    /\ Items = <<1, 2>>
    /\ lOp.ret = <<2>>
    /\ Len(lLog.ws) = 2

\* The index at which the call that ran last removed one element: the
\* argument of removeByIndex, the last index for pop(), 0 for shift().
RemovedAt ==
    CASE lOp.name = "pop" -> Len(gBefore) - 1
      [] lOp.name = "shift" -> 0
      [] OTHER -> gArgs[1]

\* The call was removeByIndex with an index in the range, or pop() or
\* shift() on a list with elements.
RemovedOne ==
    /\ lOp.name \in {"removeByIndex", "pop", "shift"}
    /\ 0 <= RemovedAt
    /\ RemovedAt < Len(gBefore)

\* C25: removeByIndex(i) with i in the range returns the element at i and
\* leaves the others in order, and calls every watcher of an unfrozen list
\* once; pop() and shift() on a list with elements do what
\* removeByIndex(length - 1) and removeByIndex(0) do.
C25_RemovesExactlyOne ==
    RemovedOne =>
        /\ lOp.ret = <<gBefore[RemovedAt + 1]>>
        /\ Items = SubSeq(gBefore, 1, RemovedAt)
                   \o SubSeq(gBefore, RemovedAt + 2, Len(gBefore))
        /\ ~lOp.was =>
              /\ lLog.ws = lWatchers
              /\ lWatchers # <<>> => gSeen.nv = Items /\ gSeen.ov = gBefore

\* removeByIndex(0) on [1, 2] with two watchers returned 1 and left [2].
C25_Witness ==
    /\ lOp.name = "removeByIndex"
    /\ gArgs = <<0>>
    /\ gBefore = <<1, 2>>
    /\ lOp.ret = <<1>>
    /\ Items = <<2>>
    /\ Len(lLog.ws) = 2

\* C29: orderBy(compareFn) leaves the elements it found, each as often,
\* and leaves the frozen flag and the baseline as they were, on a frozen
\* list as on an unfrozen one.
C29_OrderByPermutes ==
    [][lOp'.name = "orderBy" =>
          /\ SameElements(Items', Items)
          /\ lFrozen' = lFrozen
          /\ Baseline' = Baseline]_vars

\* orderBy ran on the frozen list [2, 1], whose baseline has elements, and
\* changed the order.
C29_Witness ==
    /\ lOp.name = "orderBy"
    /\ lOp.was
    /\ lFrozen
    /\ Baseline # <<>>
    /\ gBefore = <<2, 1>>
    /\ Items = <<1, 2>>

(***************************************************************************)
(* Claims about state()                                                    *)
(***************************************************************************)

\* C24: set(v) calls reaction if and only if v differs from the current
\* value, with its parameter oldVal bound to the value before the call and
\* newVal to v, and get() then returns v.
C24_ReactionGetsOldThenNew ==
    /\ stOp.name = "set" =>
          /\ stOp.called <=> stOp.arg # stOp.before
          /\ stOp.called =>
                /\ stLog[Len(stLog)].oldVal = stOp.before
                /\ stLog[Len(stLog)].newVal = stOp.arg
          /\ stValue = stOp.arg
    /\ stOp.name = "get" => stOp.ret = stValue

(***************************************************************************)
(* Claims about the registration of watchers                               *)
(***************************************************************************)

\* How often the value x occurs in the sequence s.
Count(s, x) == Cardinality({i \in DOMAIN s : s[i] = x})

\* A registered watcher is registered once, and the operation that has just
\* returned called it once: a write of the signal during which the set of
\* watchers stayed as it was, any operation of the list.
OnceEach ==
    /\ \A w \in SigWatchers : Count(sListeners, w) <= 1
    /\ \A w \in ListWatchers : Count(lWatchers, w) <= 1
    /\ (sDone.kind = "write" /\ sDone.nv # sDone.ov /\ sDone.fixed) => CalledOnce(sDone)
    /\ lLog.ws # <<>> => EachOnce

\* listens(w) and listener(w) leave w registered, registered before or not;
\* off(w) and stop(w) leave it not registered, and change nothing if it was
\* not.
AddsAndRemoves ==
    /\ \A w \in SigWatchers :
          /\ Listens(w) => Members(sListeners') = Members(sListeners) \cup {w}
          /\ Off(w) =>
                /\ Members(sListeners') = Members(sListeners) \ {w}
                /\ w \notin Members(sListeners) => UNCHANGED <<sValue, sListeners, sStack>>
    /\ \A w \in ListWatchers :
          /\ Listener(w) => Range(lWatchers') = Range(lWatchers) \cup {w}
          /\ Stop(w) =>
                /\ Range(lWatchers') = Range(lWatchers) \ {w}
                /\ w \notin Range(lWatchers) =>
                      /\ lWatchers' = lWatchers
                      /\ Items' = Items
                      /\ lFrozen' = lFrozen
                      /\ Baseline' = Baseline

\* C22: the watchers of a signal and of a list are a set: a watcher
\* registered again is registered once and called once per notification,
\* one off/stop removes it, and off/stop of a watcher that is not
\* registered changes nothing.
C22_WatchersAreASet == [][AddsAndRemoves /\ OnceEach']_vars

\* listens(w) has just returned for a watcher that was registered already,
\* and the set holds it once.
C22_Witness ==
    /\ sDone.kind = "listens"
    /\ sDone.fixed
    /\ \A w \in sDone.reg : Count(sListeners, w) = 1

(***************************************************************************)
(* Claims about cleanup actions that throw or register                     *)
(***************************************************************************)

\* C27: when a cleanup action throws during a dispose() called from outside
\* (no cleanup action having called dispose() during it), no dispose() goes
\* on, the actions after the one that threw have not run in that call, the
\* ones up to it have, and the action list still holds them all, so that
\* the next dispose() starts with the ones that ran.
C27_ThrowLeavesStore ==
    (scDone.kind = "throw" /\ scDone.plain) =>
        /\ scStack = <<>>
        /\ scDone.upto # <<>>
        /\ scArrays[effectStore] = scDone.upto \o scDone.rest
        /\ \A e \in Range(scDone.rest) : scRuns[e] = scDone.base[e]
        /\ \A e \in Range(scDone.upto) : scRuns[e] = Min(scDone.base[e] + 1, MaxRuns)

\* A cleanup action threw with another one registered after it, in a
\* dispose() that ran again an action that had run in an earlier call.
C27_Witness ==
    /\ scDone.kind = "throw"
    /\ scDone.plain
    /\ scDone.rest # <<>>
    /\ \E e \in Range(scDone.upto) : scDone.base[e] = 1 /\ scRuns[e] = 2
    /\ \A e \in Range(scDone.rest) : scRuns[e] = 0

\* C28: when a dispose() called from outside has returned and no cleanup
\* action has thrown, every action registered before or during it has run
\* and none is retained; and outside dispose() an action that is in the
\* action list has not run yet.
C28_RegisteredDuringDisposeRuns ==
    /\ (scDone.kind = "return" /\ scStack = <<>> /\ ~scThrew) =>
          /\ \A e \in DOMAIN scRegs : scRuns[e] >= 1
          /\ scArrays[effectStore] = <<>>
    /\ (scStack = <<>> /\ ~scThrew) =>
          \A e \in Range(scArrays[effectStore]) : scRuns[e] = 0

\* C26: with two or more watchers on a Signal that stay registered, once the
\* outermost set value has returned, the newVal of the notification each
\* watcher received last is the value the Signal holds, also when a watcher
\* wrote the Signal during its own notification.
C26_LastSeenIsStored ==
    (/\ sDone.kind = "write"
     /\ sStack = <<>>
     /\ sDone.fixed
     /\ Cardinality(sDone.reg) >= 2) =>
        \A w \in sDone.reg : \A seen \in sDone.last[w] : seen = sValue

(***************************************************************************)
(* Claims about watchers and predicates that throw                         *)
(***************************************************************************)

\* The entries of the listener set the innermost notify() has not reached.
NotReached == {sListeners[i] : i \in (Top.idx + 1) .. Len(sListeners)} \ {Empty}

\* A watcher of a signal throws: the notify() calling it ends there, with it
\* the write; the value stays as it is, which is the value written unless a
\* watcher wrote again; the watchers not reached have not been called, if
\* the set was not changed meanwhile.
SignalThrow ==
    sDone'.kind = "throw" =>
        /\ sStack # <<>>
        /\ sStack' = SubSeq(sStack, 1, Len(sStack) - 1)
        /\ sValue' = sValue
        /\ ~Top.stale => sValue' = sDone'.nv /\ sValue' # sDone'.ov
        /\ sDone'.calls[Top.cur] >= 1
        /\ Top.fixed => \A w \in NotReached : sDone'.calls[w] = 0

\* A watcher of a list throws: the watchers called are those up to it, the
\* sequence is the one the mutator left (the array the watchers got as
\* newVal), and the list is frozen or not as before.
ListThrow ==
    lOp'.name = "throw" =>
        /\ lLog.ws # <<>>
        /\ \E k \in 1 .. Len(lLog.ws) :
              /\ lLog.ws[k] = lOp'.ret[1]
              /\ lLog'.ws = SubSeq(lLog.ws, 1, k)
        /\ Items' = Items
        /\ Items' = lHeap[lLog.nr]
        /\ lOp.name = "push" => Items' = gBefore \o gArgs[1]
        /\ lOp.name = "set" => Items' = gArgs[1]
        /\ lFrozen' = lFrozen
        /\ lWatchers' = lWatchers

\* C23: when a watcher throws during a notification of a Signal or of a
\* SignalList, the notification ends there with the error: the watchers not
\* yet called are not called, and the change the operation made is kept.
C23_ThrowEndsNotification == [][SignalThrow /\ ListThrow]_vars

\* A write of a signal with two watchers was ended by the first watcher's
\* error: the second was not called, and the signal holds the value written.
C23_Witness ==
    /\ sDone.kind = "throw"
    /\ sStack = <<>>
    /\ sDone.fixed
    /\ Cardinality(sDone.reg) = 2
    /\ \E w \in sDone.reg : sDone.calls[w] = 0
    /\ sDone.nv # sDone.ov
    /\ sValue = sDone.nv

\* C30: when the predicate passed to filterBy or remove throws, the list's
\* items are those of before the call, in the array that held them, and no
\* watcher is called.
C30_ThrowingPredicateChangesNothing ==
    [][lOp'.name \in {"filterBy throws", "remove throws"} =>
          /\ Items' = Items
          /\ Items' = gBefore'
          /\ Baseline' = Baseline
          /\ lFrozen' = lFrozen
          /\ lWatchers' = lWatchers
          /\ lLog'.ws = <<>>
          /\ gSeen' = NoSeen]_vars

\* The predicate of remove threw at the second of two elements, on a list
\* that has a watcher and is not frozen.
C30_Witness ==
    /\ lOp.name = "remove throws"
    /\ gArgs = <<2>>
    /\ Len(Items) = 2
    /\ lWatchers # <<>>
    /\ ~lFrozen

====
